---- MODULE Spec2Model ----
(***************************************************************************)
(* mrequests: map() and imap() run AsyncRequest.send over a                *)
(* multiprocessing.Pool.  The model has one caller (of map) or one         *)
(* consumer (of the imap generator), the pool's task feeder, its worker    *)
(* processes and the queue of completed units.                             *)
(*                                                                         *)
(* A descriptor is identified by its position in the input; what its       *)
(* transport call does is the input D: "ok" (returns a Response that is    *)
(* true as a boolean), "falsy" (returns a Response that is false as a      *)
(* boolean: requests.Response.__bool__ is Response.ok, false for a 4xx or  *)
(* 5xx status) or "raise" (raises an Exception).                           *)
(***************************************************************************)
EXTENDS Integers, Sequences, FiniteSets, TLC

\* ---- bounds of the model
MaxN == 3          \* longest input
MaxSize == 2       \* largest size argument
CpuCount == 2      \* processing units of the host (what Pool() creates)

Outcome == {"ok", "falsy", "raise"}
MaxW == IF MaxSize > CpuCount THEN MaxSize ELSE CpuCount
Workers == 1..MaxW
Inputs == UNION {[1..n -> Outcome] : n \in 0..MaxN}

VARIABLES
  mode,        \* "map" or "imap": the function called
  D,           \* the input: D[i] is what descriptor i's transport call does
  lazy,        \* imap only: the source is unbounded and D is its prefix
  sizeGiven,   \* FALSE: size is None
  size,        \* the size argument when given
  handler,     \* an exception_handler is supplied
  pc,          \* where the caller of map / the imap generator is
  err,         \* the exception that left map / the generator, or "none":
               \* "ValueError" (Pool), "AttributeError" (request.exception),
               \* "HandlerError" (raised by the exception handler)
  waiting,     \* imap: the consumer is inside next(), the generator runs
  pool,        \* "none", "run", "closed", "joined", "terminated"
  alive,       \* the live worker processes
  running,     \* pairs <<worker, unit>>: the units being executed
  pulled,      \* how many descriptors have been taken from the source
  srcDone,     \* the feeder has seen the end of the source
  inq,         \* the pool's task queue: units waiting for a worker
  items,       \* completed units not yet taken by the caller / generator
  completed,   \* every completed unit, in completion order
  units,       \* units[i]: the outcome slots of unit i as returned
  idx,         \* map: position of the result loop
  ret,         \* map: the list being returned (units whose response it holds)
  yielded,     \* imap: the units whose responses were yielded, in order
  hlog,        \* the units the exception handler was called with, in order
  args,        \* one AsyncRequest looked at alone: its constructor arguments
  req,         \* that AsyncRequest: its attributes
  pre,         \* its attributes when send was called
  call,        \* what session.request was called with
  rpc          \* "off" (map / imap runs), "args", "built", "sent"

sendv == <<args, req, pre, call, rpc>>

mainv == <<mode, D, lazy, sizeGiven, size, handler, pc, err, waiting, pool,
           alive, running, pulled, srcDone, inq, items, completed, units,
           idx, ret, yielded, hlog>>

vars == <<mainv, sendv>>

params == <<mode, D, lazy, sizeGiven, size, handler, sendv>>
poolv == <<pool, alive, running, pulled, srcDone, inq, items, completed, units>>
outv == <<idx, ret, yielded, hlog>>

N == Len(D)
Ids == 1..N

\* ---- AsyncRequest

\* __init__: response is None, the attribute `exception` does not exist
NewUnit == [response |-> "None", exception |-> "unset"]

\* a send that also stores what it caught in the response slot
SendUnitBoth(u, outcome) ==
  IF outcome = "raise"
    THEN [u EXCEPT !.exception = "exc", !.response = "exc"]
    ELSE [u EXCEPT !.response = outcome]

\* AsyncRequest.send: the transport's response is stored, or its exception
SendUnit(u, outcome) ==
  IF outcome = "raise"
    THEN [u EXCEPT !.exception = "exc"]
    ELSE [u EXCEPT !.response = outcome]

\* `if request.response:` the truth value of the response slot
Truthy(r) == r = "ok"

\* ---- one AsyncRequest, constructed and sent

\* a dict: a function from its keys to its values
Empty == [k \in {} |-> ""]

\* d.update(e)
Update(d, e) ==
  [k \in DOMAIN d \cup DOMAIN e |-> IF k \in DOMAIN e THEN e[k] ELSE d[k]]

Without(d, ks) == [k \in DOMAIN d \ ks |-> d[k]]

\* the keyword arguments a caller gives the constructor, and their values
CtorKeys == {"session", "callback", "stream", "timeout", "hooks"}
ValuesOf(k) ==
  CASE k = "session" -> {"None", "s1"}
    [] k = "callback" -> {"None", "cb"}
    [] k = "stream" -> {"True", "False"}
    [] k = "timeout" -> {"5"}
    [] k = "hooks" -> {"h"}
AllValues == UNION {ValuesOf(k) : k \in CtorKeys}
KwArgs ==
  UNION {{f \in [S -> AllValues] : \A k \in S : f[k] \in ValuesOf(k)} :
           S \in SUBSET CtorKeys}
Methods == {"GET", "POST"}

NoArgs == [method |-> "", url |-> "", kw |-> Empty]
NoReq == [method |-> "", url |-> "", session |-> "", kwargs |-> Empty,
          response |-> "None", exception |-> "unset"]
NoCall == [method |-> "", url |-> "", session |-> "", override |-> "",
           options |-> Empty]

\* __init__: session popped (a fresh Session when absent or None), callback
\* popped and, when true, installed as hooks; the rest is stored
CtorSession(kw) ==
  IF "session" \in DOMAIN kw /\ kw["session"] # "None"
    THEN kw["session"] ELSE "fresh"
CtorKwargs(kw) ==
  LET rest == Without(kw, {"session", "callback"}) IN
    IF "callback" \in DOMAIN kw /\ kw["callback"] # "None"
      THEN Update(rest, [hooks |-> "response=cb"])
      ELSE rest
NewRequest(a) ==
  [method |-> a.method, url |-> a.url, session |-> CtorSession(a.kw),
   kwargs |-> CtorKwargs(a.kw),
   response |-> NewUnit.response, exception |-> NewUnit.exception]

\* a merge in which the stored options win over the override
MergedStoredWins(stored, override) == Update(Update(Empty, override), stored)

\* merged_kwargs = {}; .update(self.kwargs); .update(kwargs)
Merged(stored, override) == Update(Update(Empty, stored), override)

\* ---- the pool

\* `if size is not None` in place of `if size`: size=0 reaches Pool(0)
UsesDefaultNoneOnly == mode = "map" /\ ~sizeGiven

\* Pool(processes=size) if size else Pool(); Pool(processes=size) in imap
UsesDefault == mode = "map" /\ (~sizeGiven \/ size = 0)
PoolFails == ~UsesDefault /\ size < 1
PoolSize == IF UsesDefault THEN CpuCount ELSE size

Init ==
  /\ mode \in {"map", "imap"}
  /\ lazy \in BOOLEAN
  /\ lazy => mode = "imap"
  /\ D \in Inputs
  /\ lazy => D = [i \in 1..MaxN |-> "ok"]
  /\ sizeGiven \in BOOLEAN
  /\ size \in -1..MaxSize
  /\ ~sizeGiven => (mode = "map" /\ size = 0)
  /\ handler \in BOOLEAN
  /\ pc = IF mode = "map" THEN "start" ELSE "gen_created"
  /\ err = "none"
  /\ waiting = FALSE
  /\ pool = "none"
  /\ alive = {}
  /\ running = {}
  /\ pulled = 0
  /\ srcDone = FALSE
  /\ inq = <<>>
  /\ items = <<>>
  /\ completed = <<>>
  /\ units = [i \in Ids |-> NewUnit]
  /\ idx = 0
  /\ ret = <<>>
  /\ yielded = <<>>
  /\ hlog = <<>>
  /\ args = NoArgs
  /\ req = NoReq
  /\ pre = NoReq
  /\ call = NoCall
  /\ rpc = "off"

\* Pool(...): the workers are started, or ValueError for fewer than one
CreatePool(next, failed) ==
  IF PoolFails
    THEN /\ pc' = failed
         /\ err' = "ValueError"
         /\ waiting' = FALSE
         /\ UNCHANGED <<pool, alive>>
    ELSE /\ pc' = next
         /\ pool' = "run"
         /\ alive' = 1..PoolSize
         /\ UNCHANGED <<err, waiting>>

\* the pool has been given the input (pool.map, pool.imap_unordered)
Feeding == pool = "run" /\ pc # "gen_dispatch"

\* the pool's task thread takes the next descriptor of the input and puts
\* it on the task queue; it runs ahead of the workers
Feed ==
  /\ Feeding
  /\ pulled < N
  /\ pulled' = pulled + 1
  /\ inq' = Append(inq, pulled + 1)
  /\ UNCHANGED <<params, pc, err, waiting, pool, alive, running, srcDone,
                 items, completed, units, outv>>

\* the task thread finds the input exhausted
FeedEnd ==
  /\ Feeding
  /\ ~lazy
  /\ pulled = N
  /\ ~srcDone
  /\ srcDone' = TRUE
  /\ UNCHANGED <<params, pc, err, waiting, pool, alive, running, pulled,
                 inq, items, completed, units, outv>>

\* a worker that takes a task while it still executes one
WorkerFreeAlways(w) == TRUE

\* a worker is free to take a task: it runs one task at a time
WorkerFree(w) == \A p \in running : p[1] # w

\* a worker that reads the next task and leaves it on the queue
WorkerTakeNoPop(w) ==
  /\ w \in alive
  /\ WorkerFree(w)
  /\ inq # <<>>
  /\ running' = running \cup {<<w, Head(inq)>>}
  /\ UNCHANGED <<params, pc, err, waiting, pool, alive, pulled, srcDone,
                 inq, items, completed, units, outv>>

\* a worker takes the next task from the task queue
WorkerTake(w) ==
  /\ w \in alive
  /\ WorkerFree(w)
  /\ inq # <<>>
  /\ running' = running \cup {<<w, Head(inq)>>}
  /\ inq' = Tail(inq)
  /\ UNCHANGED <<params, pc, err, waiting, pool, alive, pulled, srcDone,
                 items, completed, units, outv>>

\* a worker finishes send(r, stream) and posts the unit to the result queue
WorkerRun(w) ==
  \E p \in running :
    /\ p[1] = w
    /\ running' = running \ {p}
    /\ units' = [units EXCEPT ![p[2]] = SendUnit(@, D[p[2]])]
    /\ completed' = Append(completed, p[2])
    /\ items' = Append(items, p[2])
    /\ UNCHANGED <<params, pc, err, waiting, pool, alive, pulled, srcDone,
                   inq, outv>>

\* after close() a worker with nothing left to do exits
WorkerExit(w) ==
  /\ pool = "closed"
  /\ w \in alive
  /\ WorkerFree(w)
  /\ inq = <<>>
  /\ alive' = alive \ {w}
  /\ UNCHANGED <<params, pc, err, waiting, pool, running, pulled, srcDone,
                 inq, items, completed, units, outv>>

\* ---- map

\* requests = list(requests); pool = Pool(processes=size) if size else Pool()
MapCreatePool ==
  /\ pc = "start"
  /\ CreatePool("map_wait", "raised")
  /\ UNCHANGED <<params, running, pulled, srcDone, inq, items, completed,
                 units, outv>>

\* a map that runs its result loop before closing and joining the pool
MapCollectThenLoop ==
  /\ pc = "map_wait"
  /\ Len(completed) = N
  /\ pc' = "map_loop"
  /\ idx' = 1
  /\ items' = <<>>
  /\ UNCHANGED <<params, err, waiting, pool, alive, running, pulled, srcDone,
                 inq, completed, units, ret, yielded, hlog>>

\* pool.map returns once every unit has completed; the results are in
\* input order
MapCollect ==
  /\ pc = "map_wait"
  /\ Len(completed) = N
  /\ pc' = "map_close"
  /\ items' = <<>>
  /\ UNCHANGED <<params, err, waiting, pool, alive, running, pulled, srcDone,
                 inq, completed, units, outv>>

\* pool.close()
MapClose ==
  /\ pc = "map_close"
  /\ pool' = "closed"
  /\ pc' = "map_join"
  /\ UNCHANGED <<params, err, waiting, alive, running, pulled, srcDone, inq,
                 items, completed, units, outv>>

\* map without its pool.join(): it goes on while workers may be alive
MapJoinNoWait ==
  /\ pc = "map_join"
  /\ pc' = "map_loop"
  /\ idx' = 1
  /\ UNCHANGED <<params, err, waiting, poolv, ret, yielded, hlog>>

\* pool.join() returns when every worker has exited
MapJoin ==
  /\ pc = "map_join"
  /\ alive = {}
  /\ pool' = "joined"
  /\ pc' = "map_loop"
  /\ idx' = 1
  /\ UNCHANGED <<params, err, waiting, alive, running, pulled, srcDone, inq,
                 items, completed, units, ret, yielded, hlog>>

\* a map that collects with an unordered pool call: the k-th collected
\* unit is the k-th to complete
MapResultUnordered(k) == completed[k]

\* pool.map returns the units in input order: the k-th is descriptor k's
MapResult(k) == k

\* one pass of `for request in requests`; the handler, when called, returns
\* or raises, and what it raises leaves map
MapLoop ==
  /\ pc = "map_loop"
  /\ idx <= N
  /\ LET u == MapResult(idx) IN
       IF Truthy(units[u].response)
         THEN /\ ret' = Append(ret, u)
              /\ idx' = idx + 1
              /\ UNCHANGED <<pc, err, hlog>>
         ELSE IF handler
           THEN IF units[u].exception = "unset"
                  THEN /\ pc' = "raised"
                       /\ err' = "AttributeError"
                       /\ UNCHANGED <<idx, ret, hlog>>
                  ELSE /\ hlog' = Append(hlog, u)
                       /\ \/ idx' = idx + 1 /\ UNCHANGED <<pc, err>>
                          \/ /\ pc' = "raised"
                             /\ err' = "HandlerError"
                             /\ UNCHANGED idx
                       /\ UNCHANGED ret
           ELSE /\ idx' = idx + 1
                /\ UNCHANGED <<pc, err, ret, hlog>>
  /\ UNCHANGED <<params, waiting, poolv, yielded>>

\* return ret
MapReturn ==
  /\ pc = "map_loop"
  /\ idx > N
  /\ pc' = "returned"
  /\ UNCHANGED <<params, err, waiting, poolv, outv>>

\* ---- imap

\* the consumer calls next() on the generator
ConsumerNext ==
  /\ mode = "imap"
  /\ ~waiting
  /\ pc \in {"gen_created", "gen_suspended"}
  /\ lazy => Len(yielded) < N
  /\ waiting' = TRUE
  /\ pc' = IF pc = "gen_created" THEN "gen_pool" ELSE "gen_loop"
  /\ UNCHANGED <<params, err, poolv, outv>>

\* the pool's finalizer: terminate() kills the workers and what they execute
Terminate ==
  /\ pool' = "terminated"
  /\ alive' = {}
  /\ running' = {}

\* the consumer stops pulling: the generator is closed where it stands.
\* GeneratorExit is raised at the yield and nothing catches it, so close()
\* and join() are not reached.  The pool is a local of the generator: the
\* interpreter may finalize it at once (reference counting, a Pool that its
\* own threads do not keep alive) or leave it running.
ConsumerClose ==
  /\ mode = "imap"
  /\ ~waiting
  /\ pc \in {"gen_created", "gen_suspended"}
  /\ pc' = "gen_closed"
  /\ \/ UNCHANGED <<pool, alive, running>>
     \/ pool = "run" /\ Terminate
  /\ UNCHANGED <<params, err, waiting, pulled, srcDone, inq, items,
                 completed, units, outv>>

\* the garbage collector finalizes the pool of a generator that was closed
\* or that raised, at some later time or never
PoolFinalized ==
  /\ pc \in {"gen_closed", "gen_raised"}
  /\ pool = "run"
  /\ Terminate
  /\ UNCHANGED <<params, pc, err, waiting, pulled, srcDone, inq, items,
                 completed, units, outv>>

\* pool = Pool(processes=size)
ImapCreatePool ==
  /\ pc = "gen_pool"
  /\ CreatePool("gen_dispatch", "gen_raised")
  /\ UNCHANGED <<params, running, pulled, srcDone, inq, items, completed,
                 units, outv>>

\* imap that materializes its input before dispatching it, as map does:
\* list(requests) of an unbounded source never returns
ImapDispatchEager ==
  /\ pc = "gen_dispatch"
  /\ ~lazy
  /\ pc' = "gen_loop"
  /\ UNCHANGED <<params, err, waiting, poolv, outv>>

\* pool.imap_unordered(partial(send, stream=stream), requests)
ImapDispatch ==
  /\ pc = "gen_dispatch"
  /\ pc' = "gen_loop"
  /\ UNCHANGED <<params, err, waiting, poolv, outv>>

\* pool.imap in place of pool.imap_unordered: the completed units are
\* handed out in input order, each once its predecessors have been
PickItemOrdered(q) ==
  LET want == Len(completed) - Len(items) + 1
      at == {k \in 1..Len(q) : q[k] = want}
  IN IF at = {} THEN 0 ELSE CHOOSE k \in at : TRUE

\* imap_unordered hands out the completed units in the order they completed
PickItem(q) == 1

Remove(q, k) == [j \in 1..(Len(q) - 1) |-> IF j < k THEN q[j] ELSE q[j + 1]]

\* one pass of `for request in pool.imap_unordered(...)`; the handler, when
\* called, returns or raises, and what it raises leaves the generator
ImapNextItem ==
  /\ pc = "gen_loop"
  /\ items # <<>>
  /\ PickItem(items) \in 1..Len(items)
  /\ LET u == items[PickItem(items)] IN
       /\ items' = Remove(items, PickItem(items))
       /\ IF Truthy(units[u].response)
            THEN /\ yielded' = Append(yielded, u)
                 /\ pc' = "gen_suspended"
                 /\ waiting' = FALSE
                 /\ UNCHANGED <<err, hlog>>
            ELSE IF handler
              THEN IF units[u].exception = "unset"
                     THEN /\ pc' = "gen_raised"
                          /\ err' = "AttributeError"
                          /\ waiting' = FALSE
                          /\ UNCHANGED <<yielded, hlog>>
                     ELSE /\ hlog' = Append(hlog, u)
                          /\ \/ UNCHANGED <<pc, err, waiting>>
                             \/ /\ pc' = "gen_raised"
                                /\ err' = "HandlerError"
                                /\ waiting' = FALSE
                          /\ UNCHANGED yielded
              ELSE UNCHANGED <<pc, err, waiting, yielded, hlog>>
  /\ UNCHANGED <<params, pool, alive, running, pulled, srcDone, inq,
                 completed, units, idx, ret>>

\* the iterator is exhausted: the loop ends
ImapExhausted ==
  /\ pc = "gen_loop"
  /\ items = <<>>
  /\ srcDone
  /\ Len(completed) = pulled
  /\ pc' = "gen_close"
  /\ UNCHANGED <<params, err, waiting, poolv, outv>>

\* pool.close()
ImapClose ==
  /\ pc = "gen_close"
  /\ pool' = "closed"
  /\ pc' = "gen_join"
  /\ UNCHANGED <<params, err, waiting, alive, running, pulled, srcDone, inq,
                 items, completed, units, outv>>

\* imap without its pool.join(): the generator ends while workers may be
\* alive
ImapJoinNoWait ==
  /\ pc = "gen_join"
  /\ pc' = "gen_done"
  /\ waiting' = FALSE
  /\ UNCHANGED <<params, err, poolv, outv>>

\* pool.join(), then the generator ends: StopIteration
ImapJoin ==
  /\ pc = "gen_join"
  /\ alive = {}
  /\ pool' = "joined"
  /\ pc' = "gen_done"
  /\ waiting' = FALSE
  /\ UNCHANGED <<params, err, alive, running, pulled, srcDone, inq, items,
                 completed, units, outv>>

\* ---- one AsyncRequest alone

SendInit ==
  /\ mode = "direct" /\ pc = "direct"
  /\ D = <<>> /\ lazy = FALSE /\ sizeGiven = FALSE /\ size = 0
  /\ handler = FALSE /\ err = "none" /\ waiting = FALSE
  /\ pool = "none" /\ alive = {} /\ running = {}
  /\ pulled = 0 /\ srcDone = FALSE
  /\ inq = <<>> /\ items = <<>> /\ completed = <<>> /\ units = <<>>
  /\ idx = 0 /\ ret = <<>> /\ yielded = <<>> /\ hlog = <<>>
  /\ args \in [method : Methods, url : {"/a", "/b"}, kw : KwArgs]
  /\ req = NoReq
  /\ pre = NoReq
  /\ call = NoCall
  /\ rpc = "args"

\* AsyncRequest(method, url, **kwargs)
Construct ==
  /\ rpc = "args"
  /\ req' = NewRequest(args)
  /\ rpc' = "built"
  /\ UNCHANGED <<mainv, args, pre, call>>

\* a send that merges the override into the stored options themselves
SendReqInPlace ==
  /\ rpc = "built"
  /\ \E s \in {"True", "False"}, o \in Outcome :
       LET merged == Merged(req.kwargs, [stream |-> s]) IN
         /\ call' = [method |-> req.method, url |-> req.url,
                     session |-> req.session, override |-> s,
                     options |-> merged]
         /\ req' = SendUnit([req EXCEPT !.kwargs = merged], o)
  /\ pre' = req
  /\ rpc' = "sent"
  /\ UNCHANGED <<mainv, args>>

\* send(r, stream): r.send(stream=stream) calls
\* self.session.request(self.method, self.url, **merged_kwargs) and stores
\* what it returns or raises
SendReq ==
  /\ rpc = "built"
  /\ \E s \in {"True", "False"}, o \in Outcome :
       /\ call' = [method |-> req.method, url |-> req.url,
                   session |-> req.session, override |-> s,
                   options |-> Merged(req.kwargs, [stream |-> s])]
       /\ req' = SendUnit(req, o)
  /\ pre' = req
  /\ rpc' = "sent"
  /\ UNCHANGED <<mainv, args>>

SendNext ==
  \/ Construct
  \/ SendReq

SendSpec == SendInit /\ [][SendNext]_vars

Next ==
  \/ Feed
  \/ FeedEnd
  \/ \E w \in Workers : WorkerTake(w)
  \/ \E w \in Workers : WorkerRun(w)
  \/ \E w \in Workers : WorkerExit(w)
  \/ MapCreatePool
  \/ MapCollect
  \/ MapClose
  \/ MapJoin
  \/ MapLoop
  \/ MapReturn
  \/ ConsumerNext
  \/ ConsumerClose
  \/ PoolFinalized
  \/ ImapCreatePool
  \/ ImapDispatch
  \/ ImapNextItem
  \/ ImapExhausted
  \/ ImapClose
  \/ ImapJoin

Spec == Init /\ [][Next]_vars

\* The steps the operating system schedules: the pool's task thread, the
\* worker processes and the thread running map or the generator.  The
\* consumer of imap is free to stop and the garbage collector to never run.
Progress ==
  \/ Feed
  \/ FeedEnd
  \/ \E w \in Workers : WorkerTake(w) \/ WorkerRun(w) \/ WorkerExit(w)
  \/ MapCreatePool \/ MapCollect \/ MapClose \/ MapJoin \/ MapLoop \/ MapReturn
  \/ ImapCreatePool \/ ImapDispatch \/ ImapNextItem \/ ImapExhausted
  \/ ImapClose \/ ImapJoin

\* as long as one of them can take a step, one of them does
Fairness == WF_vars(Progress)

FairSpec == Spec /\ Fairness

\* ---- properties

IdSeq == [i \in Ids |-> i]
Returned(i) == D[i] # "raise"
Raised(i) == D[i] = "raise"
Count(q, x) == Cardinality({k \in 1..Len(q) : q[k] = x})
Pos(q, x) == CHOOSE k \in 1..Len(q) : q[k] = x
MapEnded == mode = "map" /\ pc \in {"returned", "raised"}

\* C1: without a handler, map returns one response for each descriptor
\* whose transport call returned a response, in input order.
C1_MapReturnsEveryResponse ==
  (mode = "map" /\ ~handler /\ pc = "returned")
    => ret = SelectSeq(IdSeq, Returned)

\* C2: with a handler, when map ends the handler has been called exactly
\* once for each unit whose transport call raised, with the exception it
\* captured, and for no other unit.
C2_HandlerOncePerFailure ==
  (MapEnded /\ handler /\ err \notin {"ValueError", "HandlerError"})
    => \A i \in Ids :
         /\ Count(hlog, i) = (IF Raised(i) THEN 1 ELSE 0)
         /\ Count(hlog, i) = 1 => units[i].exception = "exc"

\* C3: no unit's outcome makes map or the imap generator raise, and when
\* map returns or the stream ends every unit has been executed and its
\* exception, if any, captured in it.
C3_OutcomeNeverAborts ==
  /\ err # "AttributeError"
  /\ pc \in {"returned", "gen_done"}
       => \A i \in Ids :
            /\ Count(completed, i) = 1
            /\ Raised(i) => units[i].exception = "exc"

\* C4: when map gives control back, every dispatched unit has completed,
\* the pool is closed and joined and no worker is alive; the pool is joined
\* only from the closed state.
C4_MapTornDown ==
  /\ [](MapEnded /\ err # "ValueError"
         => /\ pool = "joined"
            /\ alive = {}
            /\ running = {}
            /\ inq = <<>>
            /\ \A i \in Ids : Count(completed, i) = 1)
  /\ [][(mode = "map" /\ pool' = "joined" /\ pool # "joined")
          => (pool = "closed" /\ ~MapEnded')]_vars

C4_Witness ==
  /\ mode = "map" /\ pc = "returned" /\ pool = "joined"
  /\ Len(ret) >= 1
  /\ \E i \in Ids : Raised(i)

\* C5: the imap generator is never finished or abandoned while worker
\* processes are alive.
C5_NoWorkersAfterAbandon ==
  pc \in {"gen_closed", "gen_done"} => (alive = {} /\ pool \in {"none", "joined"})

\* C6: when the stream of imap over a finite input ends, every unit whose
\* transport call returned a response has been yielded exactly once and
\* no other unit has.
C6_ImapYieldsEveryResponse ==
  (mode = "imap" /\ ~lazy /\ pc = "gen_done")
    => \A i \in Ids : Count(yielded, i) = (IF Returned(i) THEN 1 ELSE 0)

\* C7: when the imap generator ends by exhaustion, the pool has been closed
\* and then joined and no worker is alive; the join comes after the close
\* and before the end of the generator.
C7_ImapTornDown ==
  /\ [](pc = "gen_done"
         => (pool = "joined" /\ alive = {} /\ running = {} /\ inq = <<>>))
  /\ [][(mode = "imap" /\ pool' = "joined" /\ pool # "joined")
          => (pool = "closed" /\ pc # "gen_done")]_vars

C7_Witness ==
  /\ pc = "gen_done" /\ pool = "joined"
  /\ Len(yielded) = N
  /\ N >= 2

\* C8 as stated: the units being executed never exceed the pool size, a
\* worker executes one unit at a time, and in imap the descriptors pulled
\* and not yet completed never exceed the pool size.
C8_PulledBoundedByPool ==
  pool # "none"
    => /\ Cardinality(running) <= PoolSize
       /\ \A p, q \in running : p[1] = q[1] => p = q
       /\ mode = "imap" => pulled - Len(completed) <= PoolSize

\* C8 amended: the units being executed never exceed the pool size, a
\* worker executes one unit at a time and a unit is executed by one worker;
\* the descriptors pulled and not yet completed are those executing plus
\* those queued for a worker, which the pool size does not bound.
C8_ExecutingBoundedByPool ==
  pool # "none"
    => /\ Cardinality(running) <= PoolSize
       /\ \A p, q \in running : (p[1] = q[1] \/ p[2] = q[2]) => p = q
       /\ pool # "terminated"
            => pulled - Len(completed) = Cardinality(running) + Len(inq)
       /\ pulled <= N

C8_Witness ==
  /\ mode = "imap"
  /\ Cardinality(running) = PoolSize
  /\ pulled - Len(completed) > PoolSize

\* C9: a response is yielded only while the consumer is asking for the next
\* item, and with an unbounded source of succeeding requests every such
\* request is answered with a response.
C9_LazyPullBased ==
  /\ [][Len(yielded') > Len(yielded) => (waiting /\ ~waiting')]_vars
  /\ [][(lazy /\ ~PoolFails /\ waiting /\ ~waiting')
          => yielded' = Append(yielded, yielded'[Len(yielded')])]_vars
  /\ (lazy /\ ~PoolFails /\ waiting) ~> ~waiting

C9_Witness ==
  /\ lazy /\ ~waiting /\ ~srcDone
  /\ Len(yielded) = 1
  /\ pulled < N

\* C10: imap yields in completion order: of two yielded units, the one
\* that completed first is yielded first.
C10_CompletionOrder ==
  mode = "imap"
    => \A a, b \in 1..Len(yielded) :
         a < b => Pos(completed, yielded[a]) < Pos(completed, yielded[b])

C10_Witness ==
  /\ mode = "imap"
  /\ Len(yielded) >= 2
  /\ yielded[1] > yielded[2]

\* C11 as stated: map creates size workers when size is given and positive
\* and the default pool in every other case; it never fails because of
\* size.
C11_SizeNeverFails ==
  mode = "map"
    => /\ err # "ValueError"
       /\ pc # "start" => pool # "none"
       /\ pool = "run"
            => Cardinality(alive)
                 = (IF sizeGiven /\ size > 0 THEN size ELSE CpuCount)

\* C11 amended: map creates size workers when size is given and positive
\* and the default pool when size is absent or zero; with a negative size
\* the creation of the pool raises ValueError and map fails, and it fails
\* this way for no other size.
C11_SizeDecidesPool ==
  mode = "map"
    => /\ err = "ValueError" <=> (pc # "start" /\ sizeGiven /\ size < 0)
       /\ (pc # "start" /\ ~(sizeGiven /\ size < 0)) => pool # "none"
       /\ pool = "run"
            => Cardinality(alive)
                 = (IF sizeGiven /\ size > 0 THEN size ELSE CpuCount)

C11_Witness ==
  /\ mode = "map" /\ pool = "run"
  /\ sizeGiven /\ size = 0
  /\ Cardinality(alive) = CpuCount

\* C12: once a unit has been executed exactly one of its outcome slots is
\* populated: the response slot, with what the transport returned, when it
\* returned; the failure slot, and not the response slot, when it raised.
\* Before its execution neither is.
C12_OneSlotPopulated ==
  \A i \in Ids :
    IF Count(completed, i) >= 1
      THEN /\ (units[i].response # "None") # (units[i].exception # "unset")
           /\ Raised(i) => (units[i].exception = "exc"
                             /\ units[i].response = "None")
           /\ Returned(i) => (units[i].response = D[i]
                               /\ units[i].exception = "unset")
      ELSE units[i] = NewUnit

C12_Witness ==
  \E i, j \in Ids :
    /\ Count(completed, i) = 1 /\ Raised(i) /\ units[i].exception = "exc"
    /\ Count(completed, j) = 1 /\ D[j] = "falsy" /\ units[j].response = "falsy"

\* C13: every descriptor taken from the input is queued, being executed by
\* one worker or executed, exactly one of the three and only once; no
\* descriptor not yet taken is; and when map returns or the stream ends
\* every descriptor taken has been executed exactly once.
C13_ExecutedExactlyOnce ==
  \A i \in Ids :
    LET workersOf == {p \in running : p[2] = i} IN
      /\ Count(completed, i) <= 1
      /\ Cardinality(workersOf) <= 1
      /\ pool # "terminated"
           => Count(inq, i) + Cardinality(workersOf) + Count(completed, i)
                = (IF i <= pulled THEN 1 ELSE 0)
      /\ pc \in {"returned", "gen_done"}
           => (pulled = N /\ Count(completed, i) = 1)

C13_Witness ==
  /\ pc \in {"returned", "gen_done"}
  /\ N >= 2
  /\ Len(completed) = N
  /\ completed[1] # 1

\* C14: for each completed unit the imap loop has taken, its response has
\* been yielded once and the handler not called when its response slot is
\* populated; otherwise nothing has been yielded for it and the handler, if
\* supplied, has been called exactly once with it.
C14_YieldOrHandle ==
  mode = "imap"
    => \A i \in Ids :
         (Count(completed, i) = 1 /\ Count(items, i) = 0)
           => IF units[i].response # "None"
                THEN Count(yielded, i) = 1 /\ Count(hlog, i) = 0
                ELSE /\ Count(yielded, i) = 0
                     /\ Count(hlog, i) = (IF handler THEN 1 ELSE 0)
                     /\ units[i].exception = "exc"

\* C17: in map the handler is called only when the pool has been closed and
\* joined, no worker is alive and no unit is being executed, so when a
\* handler's exception leaves map no worker is left; in imap the handler is
\* called while the pool is open and its workers alive.
C17_HandlerAfterJoin ==
  /\ [][(mode = "map" /\ hlog' # hlog)
          => (pool = "joined" /\ alive = {} /\ running = {} /\ inq = <<>>)]_vars
  /\ [](mode = "map" /\ err = "HandlerError"
         => (pc = "raised" /\ pool = "joined" /\ alive = {}))
  /\ [][(mode = "imap" /\ hlog' # hlog) => (pool = "run" /\ alive # {})]_vars

C17_Witness ==
  /\ mode = "map" /\ pc = "raised" /\ err = "HandlerError"
  /\ Len(hlog) >= 1
  /\ pool = "joined" /\ alive = {}

\* C18: in map the handler is called for the failed units in input order,
\* whatever order they completed in.
C18_HandlerInInputOrder ==
  mode = "map"
    => \A a, b \in 1..Len(hlog) : a < b => hlog[a] < hlog[b]

C18_Witness ==
  /\ mode = "map"
  /\ Len(hlog) >= 2
  /\ Pos(completed, hlog[1]) > Pos(completed, hlog[2])

\* C15: the transport receives the request's method and url and its stored
\* options with the streaming flag replaced by the override: the flag it
\* receives is the override, also when a different flag was stored, and
\* every other option is the stored one; it receives no other option.
C15_OverrideWins ==
  rpc = "sent"
    => /\ call.method = pre.method /\ call.url = pre.url
       /\ DOMAIN call.options = DOMAIN pre.kwargs \cup {"stream"}
       /\ call.options["stream"] = call.override
       /\ \A k \in DOMAIN pre.kwargs \ {"stream"} :
            call.options[k] = pre.kwargs[k]

C15_Witness ==
  /\ rpc = "sent"
  /\ "stream" \in DOMAIN pre.kwargs
  /\ pre.kwargs["stream"] = "True" /\ call.override = "False"
  /\ call.options["stream"] = "False"
  /\ "timeout" \in DOMAIN call.options
  /\ "hooks" \in DOMAIN call.options

\* C16: send leaves the request's method, url, session and stored options
\* as they were when it was called, whether the transport returned or
\* raised; only the outcome slots change.
C16_SendKeepsDescriptor ==
  rpc = "sent"
    => /\ req.method = pre.method
       /\ req.url = pre.url
       /\ req.session = pre.session
       /\ req.kwargs = pre.kwargs
       /\ pre = NewRequest(args)
       /\ <<req.response, req.exception>> # <<pre.response, pre.exception>>

C16_Witness ==
  /\ rpc = "sent"
  /\ req.exception = "exc"
  /\ "stream" \in DOMAIN req.kwargs
  /\ req.kwargs["stream"] # call.override
  /\ req.session = "s1"
====
